---- MODULE Spec2Model ----
(***************************************************************************)
(* Model of scripts/phi/binning_routines.py (GInCovPipe): the phi          *)
(* estimator (optim, optim_2, optim_3), the per-bin attribute extraction   *)
(* (infer_bin_attributes), the two binning loops (binning_equal_days,      *)
(* binning_equal_size) and the aggregation (calculate_phi_per_bin).        *)
(*                                                                         *)
(* Numbers.  Every value of the program that can be a float NaN (a         *)
(* missing t, t_sd, phi) is an integer here, with NaN standing for the     *)
(* float NaN; all real values of the model are >= 0.  Comparisons and      *)
(* arithmetic on such values go through Lt/Le/Ge/Eq/Add, which behave as   *)
(* IEEE comparisons do on NaN (always false) and propagate NaN.            *)
(* A rate (n_haplos/d, num_mut/d) is a pair <<numerator, denominator>>.    *)
(* An snvs string is the tuple of its whitespace-separated tokens; the     *)
(* empty string is <<>>.                                                   *)
(***************************************************************************)
EXTENDS Integers, Sequences, FiniteSets, TLC

\* ------------------------------------------------------------------ bounds
MaxRows == 3      \* rows of the table
MaxMissing == 1   \* rows of the table whose t is missing
MaxDay == 2       \* largest day offset t
MaxParam == 2     \* largest width (days) and size (s) tried
MaxCount == 2     \* largest numerator of a rate handed to optim directly
MaxDen == 2       \* largest denominator of a rate handed to optim directly

\* --------------------------------------------------------------- constants
NaN == -1         \* np.nan / a missing value
x0 == 1           \* seed of the minimizer

SnvsValues == {<<>>, <<"m1">>, <<"m2">>}

\* What optimize.minimize can hand back: it converged or it did not, and
\* sol.x[0] is a finite float either way (one value stands for them all: no
\* step of the program looks at it).
MinimizeResults == [success : BOOLEAN, x : {x0 + 1}]

\* ------------------------------------------------------- float comparisons
Lt(a, b) == a # NaN /\ b # NaN /\ a < b
Le(a, b) == a # NaN /\ b # NaN /\ a <= b
Ge(a, b) == a # NaN /\ b # NaN /\ a >= b
Eq(a, b) == a # NaN /\ b # NaN /\ a = b
Add(a, b) == IF a = NaN \/ b = NaN THEN NaN ELSE a + b
Sub(a, b) == IF a = NaN \/ b = NaN THEN NaN ELSE a - b

\* -------------------------------------------------------------- sequences
Range(s) == {s[i] : i \in DOMAIN s}

RECURSIVE py_min_from(_, _, _)
py_min_from(s, i, cur) ==
  IF i > Len(s) THEN cur
  ELSE py_min_from(s, i + 1, IF Lt(s[i], cur) THEN s[i] ELSE cur)

\* builtin min(iterable) of a non-empty iterable of floats
py_min(s) == py_min_from(s, 2, s[1])

RECURSIVE py_max_from(_, _, _)
py_max_from(s, i, cur) ==
  IF i > Len(s) THEN cur
  ELSE py_max_from(s, i + 1, IF Lt(cur, s[i]) THEN s[i] ELSE cur)

\* builtin max(iterable) of a non-empty iterable of floats
py_max(s) == py_max_from(s, 2, s[1])

RECURSIVE Sum(_)
Sum(s) == IF s = <<>> THEN 0 ELSE Head(s) + Sum(Tail(s))

\* Series.dropna()
dropna_values(s) == SelectSeq(s, LAMBDA v : v # NaN)

\* Series.min() / Series.max(): skip NaN, NaN when nothing is left
series_min(s) ==
  LET v == dropna_values(s) IN
  IF v = <<>> THEN NaN ELSE CHOOSE m \in Range(v) : \A y \in Range(v) : m <= y

series_max(s) ==
  LET v == dropna_values(s) IN
  IF v = <<>> THEN NaN ELSE CHOOSE m \in Range(v) : \A y \in Range(v) : m >= y

\* round(Series.mean()): the mean skips NaN; round() is round-half-to-even
round_mean(s) ==
  LET v == dropna_values(s)
      n == Len(v)
      q == Sum(v) \div n
      r == Sum(v) % n
  IN IF n = 0 THEN NaN
     ELSE IF 2 * r < n THEN q
     ELSE IF 2 * r > n THEN q + 1
     ELSE IF q % 2 = 0 THEN q ELSE q + 1

\* Series.std() (ddof = 1): NaN with fewer than two values; otherwise a
\* number, recorded here as n(n-1) times the sample variance.
series_std(s) ==
  LET v == dropna_values(s)
      n == Len(v)
      sq == [i \in 1..n |-> v[i] * v[i]]
  IN IF n < 2 THEN NaN ELSE n * Sum(sq) - Sum(v) * Sum(v)

Column_t(tab) == [i \in 1..Len(tab) |-> tab[i].t]

\* ------------------------------------------------------------ PhiEstimator
\* Rates are pairs <<numerator, denominator>>, denominator >= 1.
RateIsZero(r) == r[1] = 0
RateGe(a, b) == a[1] * b[2] >= b[1] * a[2]

\* One call of optimize.minimize(get_phi, x0, method, args): what is called,
\* and the result `sol` the library hands back for it.
MinimizeCall(method, n_haplo, n_mut, sol) ==
  [method |-> method, x0 |-> x0, n_haplo |-> n_haplo, n_mut |-> n_mut, sol |-> sol]

\* The guard chain with its two tests in the other order.
optim_guarded_ge_first(method, n_haplo, n_mut, sol) ==
  IF RateGe(n_haplo, n_mut)
    THEN [ret |-> NaN, calls |-> <<>>]
  ELSE IF RateIsZero(n_haplo) \/ RateIsZero(n_mut)
    THEN [ret |-> 0, calls |-> <<>>]
  ELSE [ret |-> sol.x, calls |-> <<MinimizeCall(method, n_haplo, n_mut, sol)>>]

\* The guard chain shared by optim, optim_2 and optim_3 (each repeats it):
\* ret is the value returned, calls the minimizer calls made on the way.
optim_guarded(method, n_haplo, n_mut, sol) ==
  IF RateIsZero(n_haplo) \/ RateIsZero(n_mut)
    THEN [ret |-> 0, calls |-> <<>>]
  ELSE IF RateGe(n_haplo, n_mut)
    THEN [ret |-> NaN, calls |-> <<>>]
  ELSE [ret |-> sol.x, calls |-> <<MinimizeCall(method, n_haplo, n_mut, sol)>>]

optim(n_haplo, n_mut, sol) == optim_guarded("Nelder-Mead", n_haplo, n_mut, sol)

optim_2(n_haplo, n_mut, sol) == optim_guarded("L-BFGS-B", n_haplo, n_mut, sol)

optim_3(n_haplo, n_mut, sol) == optim_guarded("trust-constr", n_haplo, n_mut, sol)

\* ---------------------------------------------------- BinAttributeExtractor
Column_snvs(tab) == [i \in 1..Len(tab) |-> tab[i].snvs]

\* set(chain.from_iterable(snvs.str.split()))
MutTypes(tab) == UNION {Range(tab[i].snvs) : i \in 1..Len(tab)}

\* d = to_t - from_t + 1, as computed by a plausible slip: the span without
\* its last day.
span_days_exclusive(from_t, to_t) == Sub(to_t, from_t)

\* d = to_t - from_t + 1
span_days(from_t, to_t) == Add(Sub(to_t, from_t), 1)

\* infer_bin_attributes(subsample_table), for a non-empty subsample; `sol` is
\* what the minimizer returns if optim calls it.  attrs is the returned dict,
\* calls the minimizer calls made.
infer_bin_attributes(subsample_table, sol) ==
  LET from_t == series_min(Column_t(subsample_table))
      to_t == series_max(Column_t(subsample_table))
      d == span_days(from_t, to_t)
      N_seq == Len(subsample_table)
      num_mut == N_seq - Cardinality({i \in 1..N_seq : subsample_table[i].snvs = <<>>})
      n_haplos == Cardinality(Range(Column_snvs(subsample_table)))
      n_mut_types == Cardinality(MutTypes(subsample_table))
      bin_t == round_mean(Column_t(subsample_table))
      bin_t_sd == series_std(Column_t(subsample_table))
      est == optim(<<n_haplos, d>>, <<num_mut, d>>, sol)
  IN [attrs |-> [t |-> bin_t, t_sd |-> bin_t_sd, phi |-> est.ret,
                 sampleSize |-> N_seq, num_mut |-> num_mut, daysPerBin |-> d,
                 haplotypes |-> n_haplos, n_mut_types |-> n_mut_types],
      calls |-> est.calls]
\* ------------------------------------------------------------------ state
VARIABLES
  call,                  \* the function called: "optim", "optim_2", "optim_3",
                         \* or "calculate_phi_per_bin"
  n_haplo, n_mut,        \* arguments of a direct call of optim*
  result,                \* what that call returned
  seq_info_short_table,  \* the input table: rows [t, snvs], sorted by t
  days_per_bin,          \* the widths to run
  seqs_per_bin,          \* the sizes to run
  pc,                    \* position in calculate_phi_per_bin
  di, si,                \* position in days_per_bin / seqs_per_bin
  minDate,
  from_t, to_t, actual_index,   \* locals of the running binner
  phi_per_bin_table,     \* the rows concatenated so far / the returned table
  minimize_log,          \* every call of optimize.minimize, in order
  emitted                \* history: one record per bin handed to
                         \* infer_bin_attributes, in order

vars == <<call, n_haplo, n_mut, result, seq_info_short_table, days_per_bin,
          seqs_per_bin, pc, di, si, minDate, from_t, to_t, actual_index,
          phi_per_bin_table, minimize_log, emitted>>

\* ----------------------------------------------------------------- inputs
IsSorted(ts) == \A i \in 1..(Len(ts) - 1) : ts[i] <= ts[i + 1]

\* The tables: up to MaxRows rows; those with a day come first, ascending in
\* t, then up to MaxMissing rows whose t is missing (a sort by t puts them
\* last).
DatedRows == UNION {[1..n -> [t : 0..MaxDay, snvs : SnvsValues]] : n \in 0..MaxRows}
MissingRows == UNION {[1..n -> [t : {NaN}, snvs : SnvsValues]] : n \in 0..MaxMissing}
\* The code only compares snvs strings and tokens for equality, so renaming
\* the mutation sites changes no count: of two tables that differ by the
\* renaming m1 <-> m2, the one whose first mutated row is m1 is taken.
Canonical(tab) ==
  \A i \in 1..Len(tab) :
    tab[i].snvs = <<"m2">> => \E j \in 1..(i - 1) : tab[j].snvs = <<"m1">>

Tables ==
  {tab \in {a \o b : a \in {r \in DatedRows : IsSorted(Column_t(r))}, b \in MissingRows} :
     Len(tab) <= MaxRows /\ Canonical(tab)}

ParamLists == {<<>>} \cup {<<p>> : p \in 1..MaxParam}
Rates == (0..MaxCount) \X (1..MaxDen)

\* The date column: the pipeline derives t as the day offset of date, so a
\* row's date is missing exactly when its t is; a date is its day offset.
Column_date(tab) == Column_t(tab)

Idle ==
  /\ pc = "start" /\ di = 1 /\ si = 1 /\ minDate = NaN
  /\ from_t = 0 /\ to_t = 0 /\ actual_index = 0
  /\ phi_per_bin_table = <<>> /\ minimize_log = <<>> /\ emitted = <<>>
  /\ result = NaN

InitOptim ==
  /\ call \in {"optim", "optim_2", "optim_3"}
  /\ n_haplo \in Rates /\ n_mut \in Rates
  /\ seq_info_short_table = <<>> /\ days_per_bin = <<>> /\ seqs_per_bin = <<>>
  /\ Idle

Init ==
  /\ call = "calculate_phi_per_bin"
  /\ n_haplo = <<0, 1>> /\ n_mut = <<0, 1>>
  /\ seq_info_short_table \in Tables
  /\ days_per_bin \in ParamLists /\ seqs_per_bin \in ParamLists
  /\ Idle

\* ---------------------------------------------------------------- actions
\* A direct call of optim, optim_2 or optim_3 with rates n_haplo, n_mut.
CallOptim ==
  /\ call \in {"optim", "optim_2", "optim_3"} /\ pc = "start"
  /\ \E sol \in MinimizeResults :
       LET r == IF call = "optim" THEN optim(n_haplo, n_mut, sol)
                ELSE IF call = "optim_2" THEN optim_2(n_haplo, n_mut, sol)
                ELSE optim_3(n_haplo, n_mut, sol)
       IN /\ result' = r.ret
          /\ minimize_log' = minimize_log \o r.calls
  /\ pc' = "done"
  /\ UNCHANGED <<call, n_haplo, n_mut, seq_info_short_table, days_per_bin,
                 seqs_per_bin, di, si, minDate, from_t, to_t, actual_index,
                 phi_per_bin_table, emitted>>

\* Where calculate_phi_per_bin goes once width number d - 1 and size number
\* s - 1 are done: into binning_equal_days with the next width (from_t =
\* min(t), to_t = from_t + days - 1), else into binning_equal_size with the
\* next size (from_t = to_t = actual_index = 0), else to the final steps.
EnterNext(d, s) ==
  /\ di' = d /\ si' = s
  /\ IF d <= Len(days_per_bin)
       THEN /\ from_t' = py_min(Column_t(seq_info_short_table))
            /\ to_t' = Sub(Add(from_t', days_per_bin[d]), 1)
            /\ pc' = "days_loop"
            /\ UNCHANGED actual_index
     ELSE IF s <= Len(seqs_per_bin)
       THEN /\ from_t' = 0 /\ to_t' = 0 /\ actual_index' = 0
            /\ pc' = "size_loop"
     ELSE /\ pc' = "finalize"
          /\ UNCHANGED <<from_t, to_t, actual_index>>

\* calculate_phi_per_bin, entry: minDate = min(date.dropna()); min() of an
\* empty sequence raises ValueError.  Then the first binner is entered.
Begin ==
  /\ call = "calculate_phi_per_bin" /\ pc = "start"
  /\ LET dates == dropna_values(Column_date(seq_info_short_table))
     IN IF dates = <<>>
          THEN /\ pc' = "ValueError"
               /\ UNCHANGED <<minDate, di, si, from_t, to_t, actual_index>>
          ELSE /\ minDate' = py_min(dates)
               /\ EnterNext(1, 1)
  /\ UNCHANGED <<call, n_haplo, n_mut, result, seq_info_short_table,
                 days_per_bin, seqs_per_bin, phi_per_bin_table, minimize_log,
                 emitted>>

\* Row positions are 0-based, as in the code: position p is table[p + 1].
Positions(tab) == [i \in 1..Len(tab) |-> i - 1]
Take(tab, ps) == [k \in 1..Len(ps) |-> tab[ps[k] + 1]]

\* phi_per_bin.update({"binning": label})
WithBinning(attrs, label) ==
  [t |-> attrs.t, t_sd |-> attrs.t_sd, phi |-> attrs.phi,
   sampleSize |-> attrs.sampleSize, num_mut |-> attrs.num_mut,
   daysPerBin |-> attrs.daysPerBin, haplotypes |-> attrs.haplotypes,
   n_mut_types |-> attrs.n_mut_types, binning |-> label]

\* The history record of one bin: the positions of its rows, those of the
\* candidate window it was formed from, the window's from_t and to_t, the
\* attribute row it gave and the minimizer calls made for it.
Bin(label, ps, cand, f, t, row, calls) ==
  [binning |-> label, rows |-> Range(ps), cand |-> cand, from_t |-> f,
   to_t |-> t, row |-> row, calls |-> calls]

\* seq_info_short_table[(t >= from_t) & (t <= to_t)]
days_window(tab, f, t) ==
  SelectSeq(Positions(tab), LAMBDA p : Ge(tab[p + 1].t, f) /\ Le(tab[p + 1].t, t))

\* One pass of the while loop of binning_equal_days.
DaysIter ==
  /\ pc = "days_loop"
  /\ Lt(to_t, py_max(Column_t(seq_info_short_table)))
  /\ LET days == days_per_bin[di]
         label == <<"eq_days", days>>
         ps == days_window(seq_info_short_table, from_t, to_t)
     IN /\ IF ps # <<>>
             THEN \E sol \in MinimizeResults :
                    LET b == infer_bin_attributes(Take(seq_info_short_table, ps), sol)
                        row == WithBinning(b.attrs, label)
                    IN /\ phi_per_bin_table' = Append(phi_per_bin_table, row)
                       /\ minimize_log' = minimize_log \o b.calls
                       /\ emitted' = Append(emitted,
                            Bin(label, ps, Range(ps), from_t, to_t, row, b.calls))
             ELSE UNCHANGED <<phi_per_bin_table, minimize_log, emitted>>
        /\ from_t' = Add(from_t, days)
        /\ to_t' = Add(to_t, days)
  /\ UNCHANGED <<call, n_haplo, n_mut, result, seq_info_short_table,
                 days_per_bin, seqs_per_bin, pc, di, si, minDate, actual_index>>

\* The loop condition of binning_equal_days fails: it returns, the caller
\* concatenates its bins and goes on.
DaysReturn ==
  /\ pc = "days_loop"
  /\ ~Lt(to_t, py_max(Column_t(seq_info_short_table)))
  /\ EnterNext(di + 1, si)
  /\ UNCHANGED <<call, n_haplo, n_mut, result, seq_info_short_table,
                 days_per_bin, seqs_per_bin, minDate, phi_per_bin_table,
                 minimize_log, emitted>>

\* t.values.searchsorted(v): the number of values below v (NaN sorts last)
searchsorted(ts, v) == Cardinality({i \in 1..Len(ts) : Lt(ts[i], v)})

\* The loop condition of binning_equal_size.
size_guard(tab, t, idx, s) ==
  Lt(t, py_max(Column_t(tab))) /\ (idx + s) <= Len(tab)

\* The slice ending one row early.
size_candidate_short(tab, idx, s) ==
  LET hi == IF idx + s - 1 < Len(tab) THEN idx + s - 1 ELSE Len(tab)
  IN SelectSeq(Positions(tab), LAMBDA p : idx <= p /\ p < hi)

\* iloc[actual_index : min(actual_index + s, len)]
size_candidate(tab, idx, s) ==
  LET hi == IF idx + s < Len(tab) THEN idx + s ELSE Len(tab)
  IN SelectSeq(Positions(tab), LAMBDA p : idx <= p /\ p < hi)

\* The window emitted: all rows of day to_t when from_t == to_t, else the
\* candidate.
size_window(tab, cand, f, t) ==
  IF Eq(f, t)
    THEN SelectSeq(Positions(tab), LAMBDA p : Eq(tab[p + 1].t, t))
    ELSE cand

\* The cursor left on the day just binned.
next_from_t_same_day(t) == t

\* from_t = to_t + 1
next_from_t(t) == Add(t, 1)

\* One pass of the while loop of binning_equal_size; max() of an empty
\* candidate raises ValueError.
SizeIter ==
  /\ pc = "size_loop"
  /\ size_guard(seq_info_short_table, to_t, actual_index, seqs_per_bin[si])
  /\ LET s == seqs_per_bin[si]
         label == <<"eq_size", s>>
         idx == searchsorted(Column_t(seq_info_short_table), from_t)
         cand == size_candidate(seq_info_short_table, idx, s)
     IN /\ actual_index' = idx
        /\ IF cand = <<>>
             THEN /\ pc' = "ValueError"
                  /\ UNCHANGED <<from_t, to_t, phi_per_bin_table, minimize_log, emitted>>
             ELSE LET new_to == py_max(Column_t(Take(seq_info_short_table, cand)))
                      ps == size_window(seq_info_short_table, cand, from_t, new_to)
                  IN /\ to_t' = new_to
                     /\ from_t' = next_from_t(new_to)
                     /\ pc' = pc
                     /\ \E sol \in MinimizeResults :
                          LET b == infer_bin_attributes(Take(seq_info_short_table, ps), sol)
                              row == WithBinning(b.attrs, label)
                          IN /\ phi_per_bin_table' = Append(phi_per_bin_table, row)
                             /\ minimize_log' = minimize_log \o b.calls
                             /\ emitted' = Append(emitted,
                                  Bin(label, ps, Range(cand), from_t, new_to, row, b.calls))
  /\ UNCHANGED <<call, n_haplo, n_mut, result, seq_info_short_table,
                 days_per_bin, seqs_per_bin, di, si, minDate>>

\* The loop condition of binning_equal_size fails: it returns, the caller
\* concatenates its bins and goes on.
SizeReturn ==
  /\ pc = "size_loop"
  /\ ~size_guard(seq_info_short_table, to_t, actual_index, seqs_per_bin[si])
  /\ EnterNext(di, si + 1)
  /\ UNCHANGED <<call, n_haplo, n_mut, result, seq_info_short_table,
                 days_per_bin, seqs_per_bin, minDate, phi_per_bin_table,
                 minimize_log, emitted>>

\* DataFrame.dropna(): a row goes when any of its cells is NaN
has_nan(row) ==
  row.t = NaN \/ row.t_sd = NaN \/ row.phi = NaN \/ row.daysPerBin = NaN

dropna(tab) == SelectSeq(tab, LAMBDA row : ~has_nan(row))

WithDate(row, date) ==
  [t |-> row.t, t_sd |-> row.t_sd, phi |-> row.phi,
   sampleSize |-> row.sampleSize, num_mut |-> row.num_mut,
   daysPerBin |-> row.daysPerBin, haplotypes |-> row.haplotypes,
   n_mut_types |-> row.n_mut_types, binning |-> row.binning, date |-> date]

RECURSIVE insert_by_date(_, _)
insert_by_date(sorted, row) ==
  IF sorted = <<>> THEN <<row>>
  ELSE IF row.date < sorted[Len(sorted)].date
    THEN Append(insert_by_date(SubSeq(sorted, 1, Len(sorted) - 1), row),
                sorted[Len(sorted)])
  ELSE Append(sorted, row)

\* sort_values(by = 'date'); rows of equal date keep their order (the sort
\* used on arrays this short is an insertion sort)
RECURSIVE sort_by_date(_)
sort_by_date(tab) ==
  IF tab = <<>> THEN <<>>
  ELSE insert_by_date(sort_by_date(SubSeq(tab, 1, Len(tab) - 1)), tab[Len(tab)])

\* calculate_phi_per_bin, after the loops: drop the rows with NaN, add the
\* date, sort.  When no binner emitted a bin the concatenated table has no
\* columns, and phi_per_bin_table['t'] raises KeyError.
Finalize ==
  /\ pc = "finalize"
  /\ IF phi_per_bin_table = <<>>
       THEN pc' = "KeyError" /\ UNCHANGED phi_per_bin_table
       ELSE LET kept == dropna(phi_per_bin_table)
                dated == [i \in 1..Len(kept) |-> WithDate(kept[i], kept[i].t + minDate)]
            IN /\ phi_per_bin_table' = sort_by_date(dated)
               /\ pc' = "done"
  /\ UNCHANGED <<call, n_haplo, n_mut, result, seq_info_short_table,
                 days_per_bin, seqs_per_bin, di, si, minDate, from_t, to_t,
                 actual_index, minimize_log, emitted>>

NextOptim == CallOptim

Next ==
  \/ Begin
  \/ DaysIter
  \/ DaysReturn
  \/ SizeIter
  \/ SizeReturn
  \/ Finalize

SpecOptim == InitOptim /\ [][NextOptim]_vars

Spec == Init /\ [][Next]_vars
\* ------------------------------------------------------------ vocabulary
Terminated == pc \in {"done", "KeyError", "ValueError"}
NoMissing(tab) == \A i \in 1..Len(tab) : tab[i].t # NaN
IsDaysBin(e) == e.binning[1] = "eq_days"
IsSizeBin(e) == e.binning[1] = "eq_size"
Emitted == DOMAIN emitted
DayOf(p) == seq_info_short_table[p + 1].t
DatedPositions == {p \in 0..(Len(seq_info_short_table) - 1) : DayOf(p) # NaN}

\* ----------------------------------------------------------------- claims

\* C4: for non-negative rates, optim (and optim_2, optim_3) returns 0 when
\* haploRate = 0 or mutRate = 0, also when haploRate >= mutRate = 0; returns
\* NaN when haploRate >= mutRate > 0; and calls the minimizer only when
\* 0 < haploRate < mutRate.
C4_GuardClassification ==
  pc = "done" =>
    LET h_zero == n_haplo[1] = 0
        m_zero == n_mut[1] = 0
        h_ge_m == n_haplo[1] * n_mut[2] >= n_mut[1] * n_haplo[2]
    IN /\ (h_zero \/ m_zero) => (result = 0 /\ minimize_log = <<>>)
       /\ (h_ge_m /\ ~m_zero /\ ~h_zero) => (result = NaN /\ minimize_log = <<>>)
       /\ (minimize_log # <<>>) => (~h_zero /\ ~h_ge_m /\ Len(minimize_log) = 1)
       /\ (~h_zero /\ ~m_zero /\ ~h_ge_m) => Len(minimize_log) = 1

\* C4 witness: optim_3 was called with haploRate > mutRate = 0 and returned 0.
C4_Witness ==
  /\ pc = "done" /\ call = "optim_3"
  /\ n_mut[1] = 0 /\ n_haplo[1] > 0 /\ result = 0
\* Once binning_equal_days has returned for the width asked for.
DaysReturned == days_per_bin # <<>> /\ di > Len(days_per_bin)
DaysBinsOf(p) == {i \in Emitted : IsDaysBin(emitted[i]) /\ p \in emitted[i].rows}
SizeBins == {i \in Emitted : IsSizeBin(emitted[i])}

\* C1: binning_equal_days with width >= 1 partitions the rows that have a
\* non-missing t: once it has returned, every such row (those on the last
\* days up to max(t) included) is in exactly one emitted bin.
C1_DaysPartition ==
  DaysReturned => \A p \in DatedPositions : Cardinality(DaysBinsOf(p)) = 1

\* The counts the claims speak of, taken from the table itself.
TableNumMut ==
  Cardinality({i \in DOMAIN seq_info_short_table : seq_info_short_table[i].snvs # <<>>})
TableHaplotypes ==
  Cardinality({seq_info_short_table[i].snvs : i \in DOMAIN seq_info_short_table})
TableMinDay ==
  CHOOSE m \in {DayOf(p) : p \in DatedPositions} : \A q \in DatedPositions : m <= DayOf(q)
TableMaxDay ==
  CHOOSE m \in {DayOf(p) : p \in DatedPositions} : \A q \in DatedPositions : m >= DayOf(q)

\* C2: with one width and no sizes, on a table whose first window already
\* reaches max(t) and whose single bin has a phi that is not NaN,
\* calculate_phi_per_bin returns without raising, with exactly one row:
\* sampleSize = number of rows, num_mut = number of rows with non-empty snvs,
\* haplotypes = number of distinct snvs, daysPerBin = max(t) - min(t) + 1.
C2_SingleWindow ==
  ( /\ Terminated
    /\ Len(days_per_bin) = 1 /\ seqs_per_bin = <<>>
    /\ seq_info_short_table # <<>> /\ NoMissing(seq_info_short_table)
    /\ TableMinDay + days_per_bin[1] - 1 >= TableMaxDay
    /\ (TableNumMut = 0 \/ TableHaplotypes < TableNumMut) )
  => /\ pc = "done"
     /\ Len(phi_per_bin_table) = 1
     /\ phi_per_bin_table[1].sampleSize = Len(seq_info_short_table)
     /\ phi_per_bin_table[1].num_mut = TableNumMut
     /\ phi_per_bin_table[1].haplotypes = TableHaplotypes
     /\ phi_per_bin_table[1].daysPerBin = TableMaxDay - TableMinDay + 1

\* The returned table holds the row of emitted bin i.
InOutput(i) ==
  \E k \in DOMAIN phi_per_bin_table :
    WithBinning(phi_per_bin_table[k], phi_per_bin_table[k].binning) = emitted[i].row

\* C3: the table calculate_phi_per_bin returns holds the row of a bin if and
\* only if the bin's phi is not NaN: bins with phi 0 and bins of a single
\* sequence (t_sd NaN) are kept.
C3_KeptIffPhiNotNaN ==
  pc = "done" => \A i \in Emitted : (emitted[i].row.phi # NaN) <=> InOutput(i)

\* C5: among the bins binning_equal_size emits in one run, only the last can
\* have fewer than `size` rows.
C5_OnlyLastUnderSize ==
  \A i \in SizeBins, j \in SizeBins :
    i < j => Cardinality(emitted[i].rows) >= emitted[i].binning[2]

\* C5 witness: a run that emitted a full bin and then a last bin with fewer
\* than `size` rows, and returned.
C5_Witness ==
  /\ pc = "done"
  /\ \E i \in SizeBins, j \in SizeBins :
       /\ i < j
       /\ Cardinality(emitted[j].rows) < emitted[j].binning[2]

\* C6: every row infer_bin_attributes produces for a bin of either binner has
\* daysPerBin >= 1, haplotypes <= sampleSize and num_mut <= sampleSize.
C6_AttributeBounds ==
  \A i \in Emitted :
    /\ emitted[i].row.daysPerBin >= 1
    /\ emitted[i].row.haplotypes <= emitted[i].row.sampleSize
    /\ emitted[i].row.num_mut <= emitted[i].row.sampleSize
    /\ emitted[i].row.sampleSize = Cardinality(emitted[i].rows)

\* C6 witness: a run in which both binners emitted a bin, one of them spanning
\* several days with as many haplotypes as sequences.
C6_Witness ==
  /\ \E i \in Emitted : IsDaysBin(emitted[i])
  /\ \E i \in SizeBins :
       /\ emitted[i].row.daysPerBin >= 2
       /\ emitted[i].row.sampleSize >= 2
       /\ emitted[i].row.haplotypes = emitted[i].row.sampleSize
       /\ emitted[i].row.num_mut = emitted[i].row.sampleSize

\* C7: when the minimizer is called and reports that it did not converge,
\* the estimator returns NaN.
C7_NonConvergenceIsNaN ==
  (pc = "done" /\ \E k \in DOMAIN minimize_log : ~minimize_log[k].sol.success)
    => result = NaN

\* C8: binning_equal_size starts a window only when at least `size` rows
\* remain from the position where the window starts, so no emitted bin has
\* fewer than `size` rows.
C8_NoUnderSizedWindow ==
  \A i \in SizeBins :
    LET s == emitted[i].binning[2]
        start == CHOOSE p \in emitted[i].cand : \A q \in emitted[i].cand : p <= q
    IN /\ Len(seq_info_short_table) - start >= s
       /\ Cardinality(emitted[i].rows) >= s

\* C9: whenever all rows of the candidate window fall on one day D, the bin
\* emitted is all rows of the table with t = D, also when D is later than
\* from_t.
C9_SingleDayTakesWholeDay ==
  \A i \in SizeBins :
    \A D \in 0..MaxDay :
      (\A p \in emitted[i].cand : DayOf(p) = D)
        => emitted[i].rows = {p \in DatedPositions : DayOf(p) = D}

\* C10: on a table sorted by t with non-negative integer t and any size >= 1
\* the loop of binning_equal_size terminates: every pass emits one bin, and
\* there are never more bins than days 0..max(t), because in every pass the
\* candidate window is non-empty (max() does not raise), to_t is strictly
\* larger than in the pass before and at most max(t); and the bins emitted
\* are pairwise disjoint and in strictly increasing order of day.
C10_SizeProgress ==
  NoMissing(seq_info_short_table) =>
    /\ pc = "ValueError" => minDate = NaN
    /\ \A i \in SizeBins :
         /\ emitted[i].cand # {}
         /\ emitted[i].to_t >= 0
         /\ emitted[i].to_t <= TableMaxDay
    /\ \A i \in SizeBins, j \in SizeBins :
         i < j =>
           /\ emitted[i].to_t < emitted[j].to_t
           /\ emitted[i].rows \cap emitted[j].rows = {}
           /\ \A p \in emitted[i].rows, q \in emitted[j].rows : DayOf(p) < DayOf(q)
    /\ SizeBins # {} => Cardinality(SizeBins) <= TableMaxDay + 1

\* C10 witness: a run on a table without missing days in which
\* binning_equal_size emitted three bins and returned.
C10_Witness ==
  /\ NoMissing(seq_info_short_table)
  /\ pc = "done"
  /\ Cardinality(SizeBins) >= 3
====
